---- MODULE Spec2Model ----
(***************************************************************************)
(* A model of cp_parallel (src/src/cp_parallel/cp_parallel.py): the        *)
(* dispatcher run_cellprofiler_parallel and the logger results_to_log.     *)
(*                                                                         *)
(* One behaviour is one Python process that either makes one call of       *)
(* run_cellprofiler_parallel (one dispatch round) or a bounded series of   *)
(* direct calls of results_to_log.                                         *)
(*                                                                         *)
(* Strings are sequences of tokens ("A", "_", "r", ...) so that the        *)
(* f-strings of the source are concatenations; a path is a sequence of     *)
(* such strings, one per component.  A log line is the pair                *)
(* <<label, value>> of its message; the asctime and process-id prefix of   *)
(* the format string is the same for every line and is left out.           *)
(*                                                                         *)
(* Environment: the external processes (spawn failure, exit status and     *)
(* stderr bytes are free choices), the host CPU count, and a file system   *)
(* in which every output path can be created (its parent exists and it is  *)
(* not a regular file).                                                    *)
(***************************************************************************)
EXTENDS Integers, Sequences, FiniteSets, TLC

(* ------------------------------ bounds -------------------------------- *)

\* largest number of entries of plate_info_dictionary
MaxUnits == 2

\* largest value of multiprocessing.cpu_count()
MaxCpu == 2

\* budget of the direct calls of results_to_log: a call costs the length of
\* its result list, and 1 when the list is empty
MaxResults == 3

(* --------------------------- strings, paths ---------------------------- *)

Str(t) == <<t>>

\* pathlib.PurePath.name: the final path component
Name(path) == path[Len(path)]

\* pathlib.PurePath.parent
Parent(path) == SubSeq(path, 1, Len(path) - 1)

\* pathlib's "/" operator: log_dir / file_name
Join(dir, name) == Append(dir, name)

RECURSIVE Flatten(_)
Flatten(ss) == IF ss = <<>> THEN <<>> ELSE Head(ss) \o Flatten(Tail(ss))

SeqsUpTo(S, n) == UNION {[1..m -> S] : m \in 0..n}

(* ---------------------------- file system ------------------------------ *)

LogDir == <<Str("logs")>>

PipelineOk      == <<Str("pipelines"), Str("ok.cppipe")>>
PipelineMissing == <<Str("pipelines"), Str("gone.cppipe")>>
PipelineIsDir   == <<Str("pipelines")>>

ImagesA       == <<Str("images"), Str("A")>>
ImagesB       == <<Str("images"), Str("B")>>
ImagesIsFile  == <<Str("images"), Str("notes.txt")>>

OutA   == <<Str("out"), Str("A")>>
OutA_r == <<Str("out"), <<"A", "_", "r">>>>
OutQ   == <<Str("out"), Str("Q")>>

Paths ==
    {LogDir, PipelineOk, PipelineMissing, PipelineIsDir, ImagesA, ImagesB,
     ImagesIsFile, <<Str("images")>>, <<Str("out")>>, OutA, OutA_r, OutQ}

\* the directory tree the call starts from; the logs directory is added by Init
InitFs ==
    [p \in Paths |->
        CASE p \in {PipelineIsDir, <<Str("images")>>, <<Str("out")>>,
                    ImagesA, ImagesB} -> "dir"
          [] p \in {PipelineOk, ImagesIsFile} -> "file"
          [] OTHER -> "missing"]

Exists(f, p) == p \in DOMAIN f /\ f[p] # "missing"

\* resolve() without strict=True: a missing path raises nothing
ResolveNotStrict(f, p) == FALSE

\* pathlib.Path.resolve(strict=True) raises FileNotFoundError for a path that
\* does not exist and returns a (truthy) Path for anything that exists,
\* regular file or not
ResolveStrictRaises(f, p) == ~Exists(f, p)

\* pathlib.Path.is_dir()
IsDir(f, p) == p \in DOMAIN f /\ f[p] = "dir"

ParentIsDir(f, p) == Len(p) = 1 \/ IsDir(f, Parent(p))

\* a mkdir that reports success and creates nothing
MkdirNothing(f, p) == [fs |-> f, err |-> "none"]

\* pathlib.Path.mkdir(exist_ok=True) and os.makedirs(exist_ok=True) on a path
\* whose parent is expected to exist: the new tree and the error raised
Mkdir(f, p) ==
    IF IsDir(f, p) THEN [fs |-> f, err |-> "none"]
    ELSE IF Exists(f, p) THEN [fs |-> f, err |-> "FileExistsError"]
    ELSE IF ~ParentIsDir(f, p) THEN [fs |-> f, err |-> "FileNotFoundError"]
    ELSE [fs |-> [f EXCEPT ![p] = "dir"], err |-> "none"]

(* ------------------------------- units --------------------------------- *)

Unit(pl, im, out) ==
    [path_to_pipeline |-> pl, path_to_images |-> im, path_to_output |-> out]

\* the values plate_info_dictionary is built from, in items() order
UnitConfigs ==
    {Unit(PipelineOk, ImagesA, OutA),
     Unit(PipelineOk, ImagesB, OutA_r),
     Unit(PipelineOk, ImagesB, OutA),
     Unit(PipelineIsDir, ImagesA, OutQ),
     Unit(PipelineMissing, ImagesA, OutQ),
     Unit(PipelineOk, ImagesIsFile, OutQ)}

RunNames == {Str("x"), <<"r", "_", "x">>}

\* the images path put before the output path
CommandImagesFirst(info) ==
    <<"cellprofiler", "-c", "-r",
      "-p", info.path_to_pipeline,
      "-i", info.path_to_images,
      "-o", info.path_to_output>>

\* the argument list built for one plate
Command(info) ==
    <<"cellprofiler", "-c", "-r",
      "-p", info.path_to_pipeline,
      "-o", info.path_to_output,
      "-i", info.path_to_images>>

\* Python's zero-based args[n]
Arg(args, n) == args[n + 1]

\* the index results_to_log and the dispatcher read the plate name from
PlateArgIndex == 6

\* plate_name = result.args[6].name
PlateName(result) == Name(Arg(result.args, PlateArgIndex))

\* the comparison off by one: one command more than CPUs is let through
ExceedsCpuByTwo(n, cpus) == n > cpus + 1

\* num_processes > multiprocessing.cpu_count()
ExceedsCpu(n, cpus) == n > cpus

(* ----------------------------- processes ------------------------------- *)

ExitCodes == {0, 1, 2}

\* stderr of a process: nothing, the two bytes of U+00E9, one invalid byte
StderrVals == {<<>>, <<195, 169>>, <<255>>}

\* what subprocess.run raises in the worker when the process cannot start:
\* the binary is missing, or may not be executed
SpawnErrors == {"FileNotFoundError", "PermissionError"}

Terminal == {"exited", "failed"}

Queued == [status |-> "queued", returncode |-> -1, stderr |-> <<>>,
           exception |-> "none", attempts |-> 0]

\* shutdown(wait=False): the with block is left while futures are pending
PoolNoWait(ps) == TRUE

\* the with-block's exit, Executor.shutdown(wait=True): every future is done
PoolIdle(ps) == \A j \in DOMAIN ps : ps[j].status \in Terminal

\* the exception of a future swallowed instead of re-raised
FutureNeverRaises(fut) == FALSE

\* Future.result() re-raises what the call raised in the worker
FutureRaises(fut) == fut.status = "failed"

Running(ps) == {j \in DOMAIN ps : ps[j].status = "running"}

\* external processes started so far
Spawned(ps) == {j \in DOMAIN ps : ps[j].status \in {"running", "exited"}}

CompletedProcess(a, rc, err) == [args |-> a, returncode |-> rc, stderr |-> err]

(* ------------------------------- logging ------------------------------- *)

\* the character of a code point, named by its number
Chr(cp) == ToString(cp)

\* bytes.decode("utf-8") over the one- and two-byte forms: the text, or an
\* error at the first byte that is neither ASCII nor a lead byte C2..DF
\* followed by a continuation byte 80..BF
RECURSIVE Utf8Decode(_)
Utf8Decode(b) ==
    IF b = <<>> THEN [ok |-> TRUE, text |-> <<>>]
    ELSE IF b[1] < 128
    THEN LET rest == Utf8Decode(Tail(b))
         IN  [ok |-> rest.ok, text |-> <<Chr(b[1])>> \o rest.text]
    ELSE IF b[1] >= 194 /\ b[1] <= 223 /\ Len(b) >= 2 /\ b[2] >= 128 /\ b[2] <= 191
    THEN LET rest == Utf8Decode(SubSeq(b, 3, Len(b)))
         IN  [ok |-> rest.ok,
              text |-> <<Chr((b[1] - 192) * 64 + (b[2] - 128))>> \o rest.text]
    ELSE [ok |-> FALSE, text |-> <<>>]

\* the plate name left out of the file name
LogFileNameOfRun(plate, rn) == rn \o <<"_run.log">>

\* f"{plate_name}_{run_name}_run.log"
LogFileName(plate, rn) == plate \o <<"_">> \o rn \o <<"_run.log">>

\* f"{run_name}_{plate_name}"
LoggerName(plate, rn) == rn \o <<"_">> \o plate

\* FileHandler(path, mode="w"): the file is truncated when opened
FileHandlerTruncate(fl, path) ==
    IF path \in DOMAIN fl THEN [fl EXCEPT ![path] = <<>>] ELSE (path :> <<>>) @@ fl

\* FileHandler(path) opens the file in mode "a": an existing file keeps its
\* lines, a missing one is created empty
FileHandlerOpen(fl, path) ==
    IF path \in DOMAIN fl THEN fl ELSE (path :> <<>>) @@ fl

\* Logger.info: every handler attached to the logger appends the line to its file
RECURSIVE Emit(_, _, _)
Emit(fl, hs, line) ==
    IF hs = <<>> THEN fl
    ELSE Emit([fl EXCEPT ![Head(hs)] = Append(@, line)], Tail(hs), line)

\* the parameters of results_to_log, and the keywords of the call at line 153
ResultsToLogParams == {"cp_parallel_results", "log_dir", "run_name"}

CallKeywords == {"results", "log_dir", "run_name"}

\* Python binds a call's keywords to the parameters: a keyword that names no
\* parameter, or a parameter left without a value, is a TypeError
BindsKeywords(params, kws) == kws = params

(* -------------------------------- state -------------------------------- *)

VARIABLES
    pc,                     \* where the calling thread is
    exc,                    \* the exception that ended run_cellprofiler_parallel
    cpu_count,              \* multiprocessing.cpu_count()
    plate_info_dictionary,  \* the values of the mapping, in items() order
    run_name,               \* run_cellprofiler_parallel's run_name
    fs,                     \* the directory tree: path -> missing, file or dir
    commands,               \* the list of commands
    idx,                    \* the position of the loop the thread is in
    procs,                  \* the futures, in submission order
    results,                \* the list of CompletedProcess
    plate_name,             \* plate_name of the dispatcher's last loop (line 151)
    notices,                \* messages given to the module's logger
    files,                  \* the log files: path -> lines
    loggers,                \* logging's registry: logger name -> handlers
    frame,                  \* the activation of results_to_log
    calls,                  \* the calls of results_to_log so far
    budget                  \* what is left for direct calls of results_to_log

vars == <<pc, exc, cpu_count, plate_info_dictionary, run_name, fs, commands,
          idx, procs, results, plate_name, notices, files, loggers, frame,
          calls, budget>>

NoExc == [type |-> "none", at |-> "none"]

NoFrame ==
    [active |-> FALSE, caller |-> "none", cp_parallel_results |-> <<>>,
     log_dir |-> <<>>, run_name |-> <<>>, k |-> 0, step |-> "none",
     plate_name |-> <<>>, output_string |-> <<>>, log_file_path |-> <<>>]

NewFrame(who, rs, dir, rn) ==
    [active |-> TRUE, caller |-> who, cp_parallel_results |-> rs,
     log_dir |-> dir, run_name |-> rn, k |-> 1, step |-> "extract",
     plate_name |-> <<>>, output_string |-> <<>>, log_file_path |-> <<>>]

NewCall(who, rs, rn) ==
    [caller |-> who, results |-> rs, run_name |-> rn, outcome |-> "active",
     logged |-> 0]

Init ==
    /\ pc = "start"
    /\ exc = NoExc
    /\ cpu_count \in 1..MaxCpu
    /\ plate_info_dictionary = <<>>
    /\ run_name = <<>>
    /\ \E k \in {"missing", "dir"} : fs = [InitFs EXCEPT ![LogDir] = k]
    /\ commands = <<>>
    /\ idx = 0
    /\ procs = <<>>
    /\ results = <<>>
    /\ plate_name = <<>>
    /\ notices = <<>>
    /\ files = <<>>
    /\ loggers = <<>>
    /\ frame = NoFrame
    /\ calls = <<>>
    /\ budget = MaxResults

\* a message of the module's logger (logging.getLogger(__name__))
Info(m) == [msg |-> m, plate |-> <<>>, returncode |-> -1]

\* line 156: the message about a return code of 1
ReturnCodeInfo(plate, rc) ==
    [msg |-> "A return code was returned, which means there was an error in the CellProfiler run.",
     plate |-> plate, returncode |-> rc]

Raise(type, at) ==
    /\ pc' = "raised"
    /\ exc' = [type |-> type, at |-> at]

(* ---------------------- run_cellprofiler_parallel ---------------------- *)

\* line 124: num_processes = len(commands), the max_workers of the pool
num_processes == Len(commands)

\* the call, and lines 74-83: commands = [], os.makedirs(log_dir, exist_ok=True)
Setup ==
    /\ pc = "start"
    /\ \E d \in SeqsUpTo(UnitConfigs, MaxUnits), rn \in RunNames :
        /\ plate_info_dictionary' = d
        /\ run_name' = rn
    /\ LET made == Mkdir(fs, LogDir)
       IN  /\ fs' = made.fs
           /\ IF made.err # "none"
              THEN Raise(made.err, "makedirs")
              ELSE pc' = "build" /\ exc' = exc
    /\ commands' = <<>>
    /\ idx' = 1
    /\ UNCHANGED <<cpu_count, procs, results, plate_name, notices, files,
                   loggers, frame, calls, budget>>

\* lines 86-121, one iteration: validate the paths, make the output
\* directory, append the command
BuildStep ==
    /\ pc = "build"
    /\ idx <= Len(plate_info_dictionary)
    /\ LET info == plate_info_dictionary[idx]
           made == Mkdir(fs, info.path_to_output)
       IN  IF ResolveStrictRaises(fs, info.path_to_pipeline)
           THEN /\ Raise("FileNotFoundError", "build")
                /\ UNCHANGED <<fs, commands, idx>>
           ELSE IF ~IsDir(fs, info.path_to_images)
           THEN /\ Raise("FileNotFoundError", "build")
                /\ UNCHANGED <<fs, commands, idx>>
           ELSE IF made.err # "none"
           THEN /\ Raise(made.err, "build")
                /\ UNCHANGED <<fs, commands, idx>>
           ELSE /\ fs' = made.fs
                /\ commands' = Append(commands, Command(info))
                /\ idx' = idx + 1
                /\ UNCHANGED <<pc, exc>>
    /\ UNCHANGED <<cpu_count, plate_info_dictionary, run_name, procs, results,
                   plate_name, notices, files, loggers, frame, calls, budget>>

\* lines 123-130: the number of commands against the CPU count
CheckWorkers ==
    /\ pc = "build"
    /\ idx > Len(plate_info_dictionary)
    /\ IF ExceedsCpu(num_processes, cpu_count)
       THEN Raise("MaxWorkerError", "check")
       ELSE pc' = "pool" /\ exc' = exc
    /\ UNCHANGED <<cpu_count, plate_info_dictionary, run_name, fs, commands,
                   idx, procs, results, plate_name, notices, files, loggers,
                   frame, calls, budget>>

\* line 133: ProcessPoolExecutor(max_workers=num_processes) refuses
\* max_workers <= 0 with a ValueError
OpenPool ==
    /\ pc = "pool"
    /\ IF num_processes <= 0
       THEN Raise("ValueError", "pool") /\ idx' = idx
       ELSE pc' = "submit" /\ exc' = exc /\ idx' = 1
    /\ UNCHANGED <<cpu_count, plate_info_dictionary, run_name, fs, commands,
                   procs, results, plate_name, notices, files, loggers, frame,
                   calls, budget>>

\* lines 135-142: executor.submit(subprocess.run, args=command, ...)
Submit ==
    /\ pc = "submit"
    /\ idx <= Len(commands)
    /\ procs' = Append(procs, Queued)
    /\ idx' = idx + 1
    /\ UNCHANGED <<pc, exc, cpu_count, plate_info_dictionary, run_name, fs,
                   commands, results, plate_name, notices, files, loggers,
                   frame, calls, budget>>

\* a worker of the pool takes a submitted call: subprocess.run starts the
\* process or raises; the pool has max_workers = len(commands) workers
WorkerStart(j) ==
    /\ procs[j].status = "queued"
    /\ Cardinality(Running(procs)) < num_processes
    /\ \/ procs' = [procs EXCEPT ![j].status = "running",
                                 ![j].attempts = @ + 1]
       \/ \E e \in SpawnErrors :
            procs' = [procs EXCEPT ![j].status = "failed",
                                   ![j].exception = e,
                                   ![j].attempts = @ + 1]
    /\ UNCHANGED <<pc, exc, cpu_count, plate_info_dictionary, run_name, fs,
                   commands, idx, results, plate_name, notices, files, loggers,
                   frame, calls, budget>>

\* the external process ends: its exit status and its captured stderr
ProcessExit(j) ==
    /\ procs[j].status = "running"
    /\ \E rc \in ExitCodes, err \in StderrVals :
        procs' = [procs EXCEPT ![j].status = "exited",
                               ![j].returncode = rc,
                               ![j].stderr = err]
    /\ UNCHANGED <<pc, exc, cpu_count, plate_info_dictionary, run_name, fs,
                   commands, idx, results, plate_name, notices, files, loggers,
                   frame, calls, budget>>

\* the end of the with block (line 142): shutdown(wait=True)
ExecutorExit ==
    /\ pc = "submit"
    /\ idx > Len(commands)
    /\ PoolIdle(procs)
    /\ pc' = "collect"
    /\ idx' = 1
    /\ UNCHANGED <<exc, cpu_count, plate_info_dictionary, run_name, fs,
                   commands, procs, results, plate_name, notices, files,
                   loggers, frame, calls, budget>>

\* line 145, one future.result() of the comprehension: it blocks until the
\* future is done; an exception leaves the name results unbound
Collect ==
    /\ pc = "collect"
    /\ idx <= Len(procs)
    /\ procs[idx].status \in Terminal
    /\ IF FutureRaises(procs[idx])
       THEN /\ Raise(procs[idx].exception, "collect")
            /\ results' = <<>>
            /\ idx' = idx
       ELSE /\ results' = Append(results,
                 CompletedProcess(commands[idx], procs[idx].returncode,
                                  procs[idx].stderr))
            /\ idx' = idx + 1
            /\ UNCHANGED <<pc, exc>>
    /\ UNCHANGED <<cpu_count, plate_info_dictionary, run_name, fs, commands,
                   procs, plate_name, notices, files, loggers, frame, calls,
                   budget>>

\* line 147
Notice ==
    /\ pc = "collect"
    /\ idx > Len(procs)
    /\ notices' = Append(notices, Info("All processes have been completed!"))
    /\ pc' = "logloop"
    /\ idx' = 1
    /\ UNCHANGED <<exc, cpu_count, plate_info_dictionary, run_name, fs,
                   commands, procs, results, plate_name, files, loggers, frame,
                   calls, budget>>

\* lines 150-153, the head of one iteration: plate_name, then the call
\* results_to_log(results=results, log_dir=log_dir, run_name=run_name);
\* after the last iteration, line 161
LogLoop ==
    /\ pc = "logloop"
    /\ IF idx > Len(results)
       THEN /\ notices' = Append(notices,
                 Info("All results have been converted to log files!"))
            /\ pc' = "returned"
            /\ UNCHANGED <<exc, plate_name, frame, calls>>
       ELSE /\ plate_name' = PlateName(results[idx])
            /\ IF ~BindsKeywords(ResultsToLogParams, CallKeywords)
               THEN /\ Raise("TypeError", "logloop")
                    /\ UNCHANGED <<frame, calls>>
               ELSE /\ frame' = NewFrame("run", results, LogDir, run_name)
                    /\ calls' = Append(calls, NewCall("run", results, run_name))
                    /\ pc' = "results_to_log"
                    /\ exc' = exc
            /\ UNCHANGED notices
    /\ UNCHANGED <<cpu_count, plate_info_dictionary, run_name, fs, commands,
                   idx, procs, results, files, loggers, budget>>

(* ---------------------------- results_to_log --------------------------- *)

\* the result lists given to results_to_log by a direct caller
LogResults ==
    {CompletedProcess(Command(Unit(PipelineOk, ImagesA, OutA)), 0, <<>>),
     CompletedProcess(Command(Unit(PipelineOk, ImagesB, OutA)), 1, <<195, 169>>),
     CompletedProcess(Command(Unit(PipelineOk, ImagesB, OutA_r)), 0, <<195, 169>>),
     CompletedProcess(Command(Unit(PipelineOk, ImagesA, OutA)), 2, <<255>>)}

Cost(rs) == IF rs = <<>> THEN 1 ELSE Len(rs)

\* a caller other than the dispatcher calls results_to_log(rs, log_dir, rn)
CallResultsToLog ==
    /\ pc \in {"start", "idle"}
    /\ budget >= 1
    /\ \E rs \in SeqsUpTo(LogResults, budget), rn \in RunNames :
        /\ frame' = NewFrame("direct", rs, LogDir, rn)
        /\ calls' = Append(calls, NewCall("direct", rs, rn))
        /\ budget' = budget - Cost(rs)
    /\ pc' = "results_to_log"
    /\ UNCHANGED <<exc, cpu_count, plate_info_dictionary, run_name, fs,
                   commands, idx, procs, results, plate_name, notices, files,
                   loggers>>

EndCall(outcome) ==
    calls' = [calls EXCEPT ![Len(calls)].outcome = outcome]

\* an exception leaves results_to_log: the dispatcher does not catch it, a
\* direct caller goes on
RtlRaise(type) ==
    /\ frame' = NoFrame
    /\ EndCall(type)
    /\ IF frame.caller = "run"
       THEN Raise(type, "results_to_log")
       ELSE pc' = "idle" /\ exc' = exc

\* lines 32-36: the next result, its plate name, decoded stderr and log path
RtlExtract ==
    /\ frame.active
    /\ frame.step = "extract"
    /\ frame.k <= Len(frame.cp_parallel_results)
    /\ LET result == frame.cp_parallel_results[frame.k]
           plate == PlateName(result)
           dec == Utf8Decode(result.stderr)
       IN  IF ~dec.ok
           THEN RtlRaise("UnicodeDecodeError")
           ELSE /\ frame' = [frame EXCEPT
                     !.plate_name = plate,
                     !.output_string = dec.text,
                     !.log_file_path =
                         Join(frame.log_dir, LogFileName(plate, frame.run_name)),
                     !.step = "configure"]
                /\ UNCHANGED <<pc, exc, calls>>
    /\ UNCHANGED <<cpu_count, plate_info_dictionary, run_name, fs, commands,
                   idx, procs, results, plate_name, notices, files, loggers,
                   budget>>

Handlers(reg, name) == IF name \in DOMAIN reg THEN reg[name] ELSE <<>>

\* lines 38-48: logging.getLogger registers the logger; without a handler a
\* FileHandler is opened (FileNotFoundError when log_dir is no directory)
\* and attached
RtlConfigure ==
    /\ frame.active
    /\ frame.step = "configure"
    /\ LET name == LoggerName(frame.plate_name, frame.run_name)
           hs == Handlers(loggers, name)
       IN  IF hs # <<>>
           THEN /\ loggers' = loggers
                /\ files' = files
                /\ frame' = [frame EXCEPT !.step = "info_plate"]
                /\ UNCHANGED <<pc, exc, calls>>
           ELSE IF ~IsDir(fs, frame.log_dir)
           THEN /\ loggers' = (name :> <<>>) @@ loggers
                /\ files' = files
                /\ RtlRaise("FileNotFoundError")
           ELSE /\ files' = FileHandlerOpen(files, frame.log_file_path)
                /\ loggers' = (name :> <<frame.log_file_path>>) @@ loggers
                /\ frame' = [frame EXCEPT !.step = "info_plate"]
                /\ UNCHANGED <<pc, exc, calls>>
    /\ UNCHANGED <<cpu_count, plate_info_dictionary, run_name, fs, commands,
                   idx, procs, results, plate_name, notices, budget>>

\* line 51: logger.info("Plate Name: %s", plate_name)
RtlInfoPlate ==
    /\ frame.active
    /\ frame.step = "info_plate"
    /\ files' = Emit(files,
                     Handlers(loggers, LoggerName(frame.plate_name, frame.run_name)),
                     <<"Plate Name: ", frame.plate_name>>)
    /\ frame' = [frame EXCEPT !.step = "info_output"]
    /\ UNCHANGED <<pc, exc, cpu_count, plate_info_dictionary, run_name, fs,
                   commands, idx, procs, results, plate_name, notices, loggers,
                   calls, budget>>

\* line 52: logger.info("Output String: %s", output_string)
RtlInfoOutput ==
    /\ frame.active
    /\ frame.step = "info_output"
    /\ files' = Emit(files,
                     Handlers(loggers, LoggerName(frame.plate_name, frame.run_name)),
                     <<"Output String: ", frame.output_string>>)
    /\ frame' = [frame EXCEPT !.step = "close"]
    /\ UNCHANGED <<pc, exc, cpu_count, plate_info_dictionary, run_name, fs,
                   commands, idx, procs, results, plate_name, notices, loggers,
                   calls, budget>>

\* the handlers left attached and open
CloseKeepsHandlers(reg, name) == reg

\* for handler in logger.handlers[:]: handler.close(); logger.removeHandler(handler)
CloseAndRemove(reg, name) == [reg EXCEPT ![name] = <<>>]

\* lines 55-57: every handler of the logger is closed and removed
RtlClose ==
    /\ frame.active
    /\ frame.step = "close"
    /\ loggers' = CloseAndRemove(loggers,
                                  LoggerName(frame.plate_name, frame.run_name))
    /\ frame' = [frame EXCEPT !.k = @ + 1, !.step = "extract"]
    /\ calls' = [calls EXCEPT ![Len(calls)].logged = @ + 1]
    /\ UNCHANGED <<pc, exc, cpu_count, plate_info_dictionary, run_name, fs,
                   commands, idx, procs, results, plate_name, notices, files,
                   budget>>

\* the loop of results_to_log is over: back in the caller; in the dispatcher
\* the iteration goes on with lines 155-158
RtlReturn ==
    /\ frame.active
    /\ frame.step = "extract"
    /\ frame.k > Len(frame.cp_parallel_results)
    /\ frame' = NoFrame
    /\ EndCall("returned")
    /\ IF frame.caller = "run"
       THEN /\ notices' =
                 IF results[idx].returncode = 1
                 THEN Append(notices,
                             ReturnCodeInfo(plate_name, results[idx].returncode))
                 ELSE notices
            /\ idx' = idx + 1
            /\ pc' = "logloop"
       ELSE /\ pc' = "idle"
            /\ UNCHANGED <<notices, idx>>
    /\ UNCHANGED <<exc, cpu_count, plate_info_dictionary, run_name, fs,
                   commands, procs, results, plate_name, files, loggers, budget>>

(* ---------------------------- specification ---------------------------- *)

Next ==
    \/ Setup
    \/ BuildStep
    \/ CheckWorkers
    \/ OpenPool
    \/ Submit
    \/ \E j \in DOMAIN procs : WorkerStart(j)
    \/ \E j \in DOMAIN procs : ProcessExit(j)
    \/ ExecutorExit
    \/ Collect
    \/ Notice
    \/ LogLoop
    \/ CallResultsToLog
    \/ RtlExtract
    \/ RtlConfigure
    \/ RtlInfoPlate
    \/ RtlInfoOutput
    \/ RtlClose
    \/ RtlReturn

Spec == Init /\ [][Next]_vars

(* ------------------------- vocabulary of the claims -------------------- *)

\* the behaviour is a call of run_cellprofiler_parallel
RunMode == pc \notin {"start", "idle"} /\ run_name # <<>>

Finished == pc \in {"returned", "raised"}

N == Len(plate_info_dictionary)

PipelineExists(u) == fs[u.path_to_pipeline] # "missing"

ImagesIsDirectory(u) == fs[u.path_to_images] = "dir"

PathsValid(u) == PipelineExists(u) /\ ImagesIsDirectory(u)

AllUnitsValid == \A i \in 1..N : PathsValid(plate_info_dictionary[i])

AllExited ==
    /\ Len(procs) = N
    /\ \A j \in DOMAIN procs : procs[j].status = "exited"

NoneRunning == \A j \in DOMAIN procs : procs[j].status # "running"

LogFiles == DOMAIN files

\* the position of the images path in a command (line 118)
ImagesArgIndex == 8

\* the unit identifier of the specification: the directory name of images_path
UnitId(u) == Name(u.path_to_images)

\* the log file of the specification for unit u
UnitLogFile(u) == Join(LogDir, UnitId(u) \o <<"_">> \o run_name \o <<"_run.log">>)

\* output directories that exist now and did not before the call
CreatedOutputs == {p \in Paths \ {LogDir} : fs[p] = "dir" /\ InitFs[p] # "dir"}

(* -------------------------------- claims ------------------------------- *)

\* C1 (as claimed): when a round over N valid units, N <= CPU count, whose
\* processes all started and ended, is over, there are N results, the i-th
\* for the i-th unit, and N log files.
C1_NResultsNLogFiles ==
    (RunMode /\ Finished /\ AllUnitsValid /\ N <= cpu_count /\ AllExited)
        => /\ Len(results) = N
           /\ \A i \in 1..N : results[i].args = Command(plate_info_dictionary[i])
           /\ Cardinality(LogFiles) = N

\* C2: with N valid units and N > CPU count the round ends in MaxWorkerError
\* raised by the check, and in no state of it is a task submitted, a process
\* spawned or a log file written.
C2_MaxWorkerBeforeScheduling ==
    (RunMode /\ AllUnitsValid /\ N > cpu_count)
        => /\ procs = <<>>
           /\ Spawned(procs) = {}
           /\ LogFiles = {}
           /\ pc \in {"build", "raised"}
           /\ pc = "raised" => exc = [type |-> "MaxWorkerError", at |-> "check"]

C2_Witness ==
    /\ RunMode /\ AllUnitsValid /\ N = 2 /\ cpu_count = 1
    /\ pc = "raised" /\ exc.type = "MaxWorkerError"

\* C3: with a unit whose pipeline path does not exist or whose images path is
\* no directory the round ends in FileNotFoundError raised while the commands
\* are built, and in no state of it is a task submitted or a process spawned,
\* whatever units precede the invalid one.
C3_PathErrorBeforeSpawn ==
    (RunMode /\ ~AllUnitsValid)
        => /\ procs = <<>>
           /\ Spawned(procs) = {}
           /\ pc \in {"build", "raised"}
           /\ pc = "raised" => exc = [type |-> "FileNotFoundError", at |-> "build"]

C3_Witness ==
    /\ RunMode /\ N = 2
    /\ PathsValid(plate_info_dictionary[1])
    /\ ~PipelineExists(plate_info_dictionary[2])
    /\ pc = "raised" /\ exc.type = "FileNotFoundError" /\ idx = 2

\* C4: once the thread is past the with block (collecting results, having
\* emitted a notice, writing a log, returned or raised from there), every
\* command has been submitted and no external process is queued or running.
C4_Barrier ==
    (RunMode /\ (\/ pc \in {"collect", "logloop", "results_to_log", "returned"}
                 \/ (pc = "raised" /\ exc.at \in {"collect", "logloop", "results_to_log"})
                 \/ results # <<>>
                 \/ notices # <<>>
                 \/ LogFiles # {}
                 \/ frame.active))
        => /\ Len(procs) = Len(commands)
           /\ \A j \in DOMAIN procs : procs[j].status \in Terminal

C4_Witness ==
    /\ RunMode /\ Len(procs) = 2 /\ notices # <<>> /\ Len(results) = 2
    /\ \E j \in DOMAIN procs : procs[j].returncode = 1

\* C5 (as claimed): when a round that passed the checks and whose processes
\* all started and ended, one of them at least with a nonzero exit status,
\* is over, it has returned, there is a log file for every unit and the
\* final notice is out.
C5_NonzeroExitNotRaised ==
    (RunMode /\ Finished /\ AllExited
        /\ \E j \in DOMAIN procs : procs[j].returncode # 0)
        => /\ pc = "returned"
           /\ \A i \in 1..N : UnitLogFile(plate_info_dictionary[i]) \in LogFiles
           /\ \E n \in DOMAIN notices :
                notices[n].msg = "All results have been converted to log files!"

\* C6: once a spawn has failed, no notice is emitted and no log file written,
\* no spawn is attempted twice, the thread never gets to the logging loop, and
\* the round ends by raising, from line 145, the error of a failed spawn,
\* with the result list unbound.
C6_SpawnFailureIsFatal ==
    (RunMode /\ \E j \in DOMAIN procs : procs[j].status = "failed")
        => /\ LogFiles = {}
           /\ notices = <<>>
           /\ \A j \in DOMAIN procs : procs[j].attempts <= 1
           /\ pc \in {"submit", "collect", "raised"}
           /\ pc = "raised" =>
                /\ exc.at = "collect"
                /\ exc.type = procs[idx].exception
                /\ procs[idx].status = "failed"
                /\ results = <<>>

C6_Witness ==
    /\ RunMode /\ pc = "raised" /\ exc.at = "collect" /\ Len(procs) = 2
    /\ procs[1].status = "exited" /\ procs[2].status = "failed"

\* C7 (as claimed): the plate name results_to_log and the dispatcher's loop
\* take from a result is the directory name of the images path of its unit,
\* the argument the command holds at ImagesArgIndex.
C7_IdentityRoundTrip ==
    /\ (frame.active /\ frame.step # "extract")
        => frame.plate_name =
             Name(Arg(frame.cp_parallel_results[frame.k].args, ImagesArgIndex))
    /\ (RunMode /\ plate_name # <<>>)
        => plate_name = UnitId(plate_info_dictionary[idx])

\* C8 (as claimed): when a round whose processes all started and ended is
\* over, the log file of every unit holds one record pair for each unit that
\* shares the file, the first record naming the unit.
C8_OnePairPerUnit ==
    (RunMode /\ Finished /\ procs # <<>> /\ AllExited)
        => \A i \in 1..N :
             LET f == UnitLogFile(plate_info_dictionary[i])
                 sharing == {j \in 1..N : UnitLogFile(plate_info_dictionary[j]) = f}
             IN  /\ f \in LogFiles
                 /\ Len(files[f]) = 2 * Cardinality(sharing)
                 /\ files[f][1] = <<"Plate Name: ", UnitId(plate_info_dictionary[i])>>

\* the record pair results_to_log writes for a result
RecordPair(r) ==
    << <<"Plate Name: ", PlateName(r)>>,
       <<"Output String: ", Utf8Decode(r.stderr).text>> >>

TargetFile(r, rn) == Join(LogDir, LogFileName(PlateName(r), rn))

\* the record pairs call c has written to file f, in list order
PairsOfCall(c, f) ==
    Flatten([j \in 1..c.logged |->
               IF TargetFile(c.results[j], c.run_name) = f
               THEN RecordPair(c.results[j]) ELSE <<>>])

\* what the calls so far have written to file f, in call order
Written(f) == Flatten([n \in 1..Len(calls) |-> PairsOfCall(calls[n], f)])

Targets ==
    UNION {{TargetFile(calls[n].results[j], calls[n].run_name) :
               j \in 1..calls[n].logged} : n \in DOMAIN calls}

Decodable(rs) == \A j \in DOMAIN rs : Utf8Decode(rs[j].stderr).ok

\* C9: between calls of results_to_log every log file holds exactly the
\* record pairs of all the calls so far, in call order and then list order,
\* each once: a later call for the same plate and run name appends to what
\* the earlier ones wrote.  A call returns unless a stderr of its list is
\* not UTF-8 or the log directory is missing: that the file or the logger
\* exists already makes no call raise.
C9_RepeatedCallsAppend ==
    ~frame.active
        => /\ LogFiles = Targets
           /\ \A f \in LogFiles : files[f] = Written(f)
           /\ \A n \in DOMAIN calls :
                calls[n].outcome = "returned"
                    <=> \/ calls[n].results = <<>>
                        \/ IsDir(fs, LogDir) /\ Decodable(calls[n].results)

C9_Witness ==
    /\ ~frame.active
    /\ Len(calls) = 2
    /\ calls[1].outcome = "returned" /\ calls[2].outcome = "returned"
    /\ Len(calls[1].results) = 1 /\ Len(calls[2].results) = 1
    /\ calls[1].run_name = calls[2].run_name
    /\ PlateName(calls[1].results[1]) = PlateName(calls[2].results[1])
    /\ calls[1].results[1].stderr # calls[2].results[1].stderr
    /\ Len(files[TargetFile(calls[1].results[1], calls[1].run_name)]) = 4

StructuralAbort ==
    RunMode /\ pc = "raised" /\ exc.at \in {"build", "check"}

FailureNotices == {n \in DOMAIN notices : notices[n].plate # <<>>}

\* C11 (as claimed): when a round whose processes all started and ended, one
\* of them with an exit status other than 0 and 1, is over, there is one
\* failure notice for each result with a nonzero status, whatever the
\* status, and none for a result with status 0.
C11_NonzeroStatusesAlike ==
    (RunMode /\ Finished /\ AllExited
        /\ \E j \in DOMAIN procs : procs[j].returncode \notin {0, 1})
        => Cardinality(FailureNotices)
             = Cardinality({j \in DOMAIN procs : procs[j].returncode # 0})

\* a line of a log file that is neither of the two records of a result
IsFailureLine(line) == line[1] \notin {"Plate Name: ", "Output String: "}

HasFailureLine(f) ==
    f \in LogFiles /\ \E l \in DOMAIN files[f] : IsFailureLine(files[f][l])

\* C12 (as claimed): when a round of two units with different log files,
\* the first exiting with status 1 and the second with 0, is over, it has
\* returned, both log files exist, and the failure message is in the log
\* file of the first unit and not in that of the second.
C12_FailureInOwnLogFile ==
    (RunMode /\ Finished /\ AllExited /\ N = 2
        /\ UnitLogFile(plate_info_dictionary[1]) # UnitLogFile(plate_info_dictionary[2])
        /\ procs[1].returncode = 1 /\ procs[2].returncode = 0)
        => /\ pc = "returned"
           /\ UnitLogFile(plate_info_dictionary[1]) \in LogFiles
           /\ UnitLogFile(plate_info_dictionary[2]) \in LogFiles
           /\ HasFailureLine(UnitLogFile(plate_info_dictionary[1]))
           /\ ~HasFailureLine(UnitLogFile(plate_info_dictionary[2]))

\* C13 (as claimed): with a unit whose pipeline path is a directory the round
\* ends in FileNotFoundError raised while the commands are built, and in no
\* state of it is a task submitted or a process spawned.
C13_PipelineMustBeFile ==
    (RunMode /\ \E i \in 1..N :
                    fs[plate_info_dictionary[i].path_to_pipeline] = "dir")
        => /\ procs = <<>>
           /\ Spawned(procs) = {}
           /\ pc \in {"build", "raised"}
           /\ pc = "raised" => exc = [type |-> "FileNotFoundError", at |-> "build"]

\* the commands are being built, or the building was aborted
Building == pc = "build" \/ (pc = "raised" /\ exc.at = "build")

\* C14: there is one command for each entry handled so far (for each entry,
\* once the loop is over), in the order of the entries, each of the form
\* cellprofiler -c -r -p <pipeline> -o <output> -i <images>; they stay so in
\* every later state, and the args of the i-th result are the i-th command.
C14_OneCommandPerEntry ==
    RunMode
        => /\ Len(commands) = IF Building THEN idx - 1 ELSE N
           /\ \A i \in DOMAIN commands :
                LET u == plate_info_dictionary[i]
                IN  commands[i] =
                      <<"cellprofiler", "-c", "-r", "-p", u.path_to_pipeline,
                        "-o", u.path_to_output, "-i", u.path_to_images>>
           /\ Len(results) <= Len(commands)
           /\ \A i \in DOMAIN results : results[i].args = commands[i]

C14_Witness ==
    /\ RunMode /\ N = 2 /\ Len(results) = 2
    /\ plate_info_dictionary[1] # plate_info_dictionary[2]
    /\ results[2].args[9] = plate_info_dictionary[2].path_to_images

\* the log write handles that are open: the handlers attached to a logger
OpenHandles ==
    UNION {{<<name, h>> : h \in DOMAIN loggers[name]} : name \in DOMAIN loggers}

\* C15: at most one log write handle is open; one is open only inside
\* results_to_log, between the opening of the FileHandler and the removal of
\* the handlers, and only when no external process is running; when
\* results_to_log is not active, having returned or raised, no handle is
\* open and no logger has a handler.
C15_ScopedHandles ==
    /\ Cardinality(OpenHandles) <= 1
    /\ OpenHandles # {}
        => /\ NoneRunning
           /\ frame.active
           /\ frame.step \in {"info_plate", "info_output", "close"}
    /\ ~frame.active => \A name \in DOMAIN loggers : loggers[name] = <<>>

C15_Witness ==
    /\ ~frame.active
    /\ OpenHandles = {}
    /\ \E n \in DOMAIN calls :
        /\ calls[n].outcome = "UnicodeDecodeError"
        /\ calls[n].logged >= 1
        /\ Len(calls[n].results) > calls[n].logged

\* C16: never more external processes run at a time than the host has CPUs;
\* once a call is submitted the pool has as many workers as the mapping has
\* entries, so a submitted call that has not started always has a free
\* worker: none waits for another to end.
C16_WorkerBound ==
    /\ Cardinality(Running(procs)) <= cpu_count
    /\ procs # <<>> => (num_processes = N /\ N <= cpu_count)
    /\ (\E j \in DOMAIN procs : procs[j].status = "queued")
        => Cardinality(Running(procs)) < N

C16_Witness ==
    /\ RunMode /\ N = 2 /\ cpu_count = 2
    /\ Cardinality(Running(procs)) = 2

(* ------------------------------- liveness ------------------------------ *)

\* a step of the thread that called run_cellprofiler_parallel: it runs on
\* whenever it is not blocked
ThreadStep ==
    \/ BuildStep
    \/ CheckWorkers
    \/ OpenPool
    \/ Submit
    \/ ExecutorExit
    \/ Collect
    \/ Notice
    \/ LogLoop

\* an idle worker of the pool takes a submitted call
WorkerStep == \E j \in DOMAIN procs : WorkerStart(j)

\* one dispatch round: the call, the thread, the workers and the processes.
\* The steps of results_to_log are not among them: a round that entered it
\* would stay there and never be over.
RunNext ==
    \/ Setup
    \/ ThreadStep
    \/ WorkerStep
    \/ \E j \in DOMAIN procs : ProcessExit(j)

\* the thread and the workers keep going; whether an external process ever
\* ends is left open
FairSpec ==
    Init /\ [][RunNext]_vars /\ WF_vars(ThreadStep) /\ WF_vars(WorkerStep)

\* C17: if the external processes keep ending (again and again none is
\* running), a round that has begun is eventually over, returned or raised;
\* and as long as an external process is running the thread is still inside
\* the with block, the round is not over and no log file is written, so
\* with a process that runs for ever that is so for ever.
C17_DispatchLiveness ==
    /\ ([]<>(Running(procs) = {})) => ((pc = "build") ~> Finished)
    /\ [](Running(procs) # {}
            => (pc = "submit" /\ ~Finished /\ LogFiles = {} /\ notices = <<>>))

\* the thread waits at the end of the with block for a process that runs
\* while another has ended
C17_Witness ==
    /\ pc = "submit" /\ idx > Len(commands) /\ Len(procs) = 2
    /\ procs[1].status = "exited" /\ procs[2].status = "running"

\* C18: the call's first step makes ./logs a directory, whether it was
\* missing or there already, changes nothing else of the file system and
\* raises nothing; so in every state of a round, aborted ones included, the
\* logs directory exists, and while it does not exist no path has been
\* validated, no output directory made and no command built.
C18_LogsDirFirst ==
    /\ [](RunMode => (fs[LogDir] = "dir" /\ exc.at # "makedirs"))
    /\ [](fs[LogDir] # "dir"
            => (~RunMode /\ commands = <<>> /\ CreatedOutputs = {} /\ exc = NoExc))
    /\ [][(pc = "start" /\ pc' \notin {"start", "results_to_log"})
            => /\ fs[LogDir] \in {"missing", "dir"}
               /\ fs' = [fs EXCEPT ![LogDir] = "dir"]
               /\ pc' = "build"
               /\ commands' = <<>>]_vars

C18_Witness ==
    /\ StructuralAbort
    /\ exc.type = "MaxWorkerError"
    /\ fs[LogDir] = "dir"
    /\ CreatedOutputs # {}

\* C19 (as claimed): a round over an empty mapping ends by returning, with
\* no task submitted, no log file written and both notices emitted.
C19_EmptyMappingReturns ==
    (RunMode /\ Finished /\ N = 0)
        => /\ pc = "returned"
           /\ procs = <<>>
           /\ LogFiles = {}
           /\ \E n \in DOMAIN notices :
                notices[n].msg = "All processes have been completed!"
           /\ \E n \in DOMAIN notices :
                notices[n].msg = "All results have been converted to log files!"

\* the results the first call of results_to_log has written
FirstLogged == SubSeq(calls[1].results, 1, calls[1].logged)

FirstNames == {PlateName(FirstLogged[j]) : j \in DOMAIN FirstLogged}

\* C20: after a first call of results_to_log (returned, or raised part of
\* the way) there are as many log files as the results written have
\* distinct names at args[6], not as many as results; the file of a name is
\* log_dir/<name>_<run_name>_run.log and holds the record pairs of the
\* results with that name, in list order, whatever their other arguments.
C20_OneFilePerName ==
    (Len(calls) = 1 /\ calls[1].caller = "direct" /\ ~frame.active)
        => /\ Cardinality(LogFiles) = Cardinality(FirstNames)
           /\ \A nm \in FirstNames :
                LET f == Append(LogDir,
                                nm \o <<"_">> \o calls[1].run_name \o <<"_run.log">>)
                IN  /\ f \in LogFiles
                    /\ files[f] =
                         Flatten([j \in DOMAIN FirstLogged |->
                                    IF PlateName(FirstLogged[j]) = nm
                                    THEN RecordPair(FirstLogged[j]) ELSE <<>>])

C20_Witness ==
    /\ Len(calls) = 1 /\ ~frame.active /\ calls[1].outcome = "returned"
    /\ Len(calls[1].results) = 3
    /\ Cardinality(LogFiles) = 2
    /\ PlateName(calls[1].results[1]) = PlateName(calls[1].results[3])
    /\ calls[1].results[1].args # calls[1].results[3].args
    /\ PlateName(calls[1].results[1]) # PlateName(calls[1].results[2])

====
